---- MODULE Spec2Model ----
(***************************************************************************)
(* HDF5-UDF: model of the C++ backend (cpp_backend.cpp: compile,           *)
(* compressBuffer, decompressBuffer, run) and of the sandbox library       *)
(* (sandbox_library.cpp: syscall_intercept, syscall_intercept_init,        *)
(* syscall_filter_init).                                                   *)
(*                                                                         *)
(* Byte strings are sequences of integers 0..255.  Paths are sequences of  *)
(* one-character strings.                                                  *)
(***************************************************************************)
EXTENDS Integers, Sequences, FiniteSets, TLC

VARIABLES
    \* ---- codec (compressBuffer / decompressBuffer) ----
    cx_pc,      \* "start" | "compressed" | "decompressed"
    cx_in,      \* the byte string handed to compressBuffer
    cx_blob,    \* what compressBuffer returned
    cx_out,     \* what decompressBuffer returned
    \* ---- sandbox library, inside the process that loaded it ----
    sb_pc,          \* "idle" | "unloaded" | "loaded"
    files_allowed,  \* static std::vector<std::string> files_allowed
    sb_hook,        \* intercept_hook_point is set to syscall_intercept
    sb_filter,      \* the seccomp rules loaded in the kernel (<<>>: no filter)
    sb_alive,       \* the process has not been killed by the kernel
    sb_inits,       \* what each call of syscall_filter_init returned, in order
    sb_last,        \* the last syscall issued and what became of it
    \* ---- CppBackend::run: the parent ----
    r_pc,       \* "idle" | "start" | "unpacked" | "materialized" | "mapped" |
                \* "forked" | "waited" | "copied" | "returned"
    r_in,       \* the arguments: blob, output descriptor, input descriptors,
                \* and whether the build defines ENABLE_SANDBOX
    r_shlib,    \* decompressed_shlib
    r_sofile,   \* the shared object on disk: "none" | "ondisk" | "unlinked"
    r_region,   \* the bytes of the shared region mm.mm (<<>>: not created)
    r_output,   \* the bytes of the caller's buffer output_dataset.data
    r_failed,   \* the parent-side step that failed, or "none"
    r_pid,      \* what fork() returned in the parent: "none" | "child" | "error"
    r_wait,     \* what waitpid() returned: "none" | "pid" | "eintr"
    r_ret,      \* what run returned in the parent: "none" | "true" | "false"
    \* ---- CppBackend::run: the forked child ----
    ch_pc,      \* "none" | "open" | "loadsym" | "populate" | "sandbox" | "udf" |
                \* "host" (returned from run) | "dead"
    ch_tables,  \* hdf5_udf_data, hdf5_udf_names, hdf5_udf_types, hdf5_udf_dims
    ch_calls,   \* how many times the entry symbol was called
    ch_writes,  \* how many bytes the function wrote to the region
    ch_fail,    \* the pre-run step that failed in the child, or "none"
    ch_end,     \* how the child ended: [how: "none" | "_exit" | "signal" | "host", code]
    \* ---- CppBackend::compile: concurrent calls, indexed by caller ----
    c_pc,       \* caller -> "idle" | "start" | "assembled" | "forked" | "waited" |
                \*           "found" | "read" | "unlinked" | "missing" | "returned"
    c_udf,      \* caller -> udf_file
    c_cpp,      \* caller -> its assembled source: "none" | "ondisk" | "unlinked"
    c_cc,       \* caller -> its compiler child: "none" | "running" | "wrote" | "failed"
    c_statok,   \* caller -> stat(output) returned 0
    c_bytecode, \* caller -> bytecode
    c_result,   \* caller -> what compile returned
    fs_so,      \* udf_file -> the file <udf_file>.so: [exists, bytes]
    \* ---- CppBackend::udfDatasetNames ----
    sc_pc,      \* "idle" | "start" | "read" | "wait" | "parse" | "done" | "failed"
    sc_text,    \* the pieces of output the preprocessor writes, in order
    sc_sent,    \* how many of them it has written
    sc_child,   \* the preprocessor child: "none" | "running" | "exited" | "reaped"
    sc_pipe,    \* the bytes in the pipe
    sc_input,   \* the parent's string input
    sc_output   \* the names returned

codecVars == <<cx_pc, cx_in, cx_blob, cx_out>>

compileVars == <<c_pc, c_udf, c_cpp, c_cc, c_statok, c_bytecode, c_result, fs_so>>

runVars == <<r_pc, r_in, r_shlib, r_sofile, r_region, r_output, r_failed, r_pid,
             r_wait, r_ret, ch_pc, ch_tables, ch_calls, ch_writes, ch_fail, ch_end>>

sandboxVars == <<sb_pc, files_allowed, sb_hook, sb_filter, sb_alive, sb_inits, sb_last>>

scanVars == <<sc_pc, sc_text, sc_sent, sc_child, sc_pipe, sc_input, sc_output>>

vars == <<codecVars, sandboxVars, runVars, compileVars, scanVars>>

(***************************************************************************)
(* Bounds of the model                                                     *)
(***************************************************************************)
\* longest byte string handed to compressBuffer
MaxLen == 3

\* calls of syscall_filter_init in one process
MaxInits == 2

\* largest grid_size of the output dataset
MaxGrid == 1

\* most input datasets handed to run
MaxInputs == 2

\* most bytes the function writes to the shared region
MaxWrites == 2

\* the byte values the inputs are drawn from
ByteVals == {0, 1, 255}

RECURSIVE SeqsUpTo(_, _)
SeqsUpTo(S, n) ==
    IF n = 0 THEN {<<>>}
    ELSE LET shorter == SeqsUpTo(S, n - 1)
         IN  shorter \cup {<<b>> \o s : b \in S, s \in {t \in shorter : Len(t) = n - 1}}

(***************************************************************************)
(* Helpers: byte strings                                                   *)
(***************************************************************************)
Max(a, b) == IF a >= b THEN a ELSE b

Zeros(n) == [i \in 1..n |-> 0]

\* std::string::resize(n): truncates, or appends value-initialised chars
Resize(s, n) == [i \in 1..n |-> IF i <= Len(s) THEN s[i] ELSE 0]

\* memcpy(&dst[off], src, Len(src)) with 0-based offset off, inside dst
MemcpyAt(dst, off, src) ==
    [i \in 1..Len(dst) |->
        IF i > off /\ i <= off + Len(src) THEN src[i - off] ELSE dst[i]]

\* the object representation of an unsigned integer of k bytes (little endian
\* host), as memcpy of a uint64_t / size_t reads and writes it
RECURSIVE LittleEndian(_, _)
LittleEndian(n, k) ==
    IF k = 0 THEN <<>> ELSE <<n % 256>> \o LittleEndian(n \div 256, k - 1)

RECURSIVE FromLittleEndian(_)
FromLittleEndian(s) ==
    IF s = <<>> THEN 0 ELSE Head(s) + 256 * FromLittleEndian(Tail(s))

\* sizeof(uint64_t)
SizeofU64 == 8

(***************************************************************************)
(* miniz (miniz.h): the zlib container around deflate.  The stream is      *)
(* header, one stored block (final bit, LEN, NLEN, data), Adler-32.        *)
(***************************************************************************)
Z_OK == 0
MZ_DATA_ERROR == 0 - 3
MZ_BUF_ERROR == 0 - 5

AdlerMod == 65521

RECURSIVE AdlerA(_)
AdlerA(s) == IF s = <<>> THEN 1 ELSE (AdlerA(SubSeq(s, 1, Len(s) - 1)) + s[Len(s)]) % AdlerMod

RECURSIVE AdlerB(_)
AdlerB(s) == IF s = <<>> THEN 0 ELSE (AdlerB(SubSeq(s, 1, Len(s) - 1)) + AdlerA(s)) % AdlerMod

\* the four checksum bytes, most significant first: b (16 bits) then a (16 bits)
Adler32Bytes(s) ==
    <<AdlerB(s) \div 256, AdlerB(s) % 256, AdlerA(s) \div 256, AdlerA(s) % 256>>

ZlibHeader == <<120, 1>>

ZlibStream(data) ==
    ZlibHeader
    \o <<1, Len(data) % 256, Len(data) \div 256,
         255 - (Len(data) % 256), 255 - (Len(data) \div 256)>>
    \o data
    \o Adler32Bytes(data)

mz_compressBound(source_len) ==
    Max(128 + (source_len * 110) \div 100,
        128 + source_len + ((source_len \div (31 * 1024)) + 1) * 5)

\* mz_compress(dest, &dest_len, src, src_len): dest_len is the room in dest on
\* entry and the stream's length on success
mz_compress(dest_len, src) ==
    IF Len(ZlibStream(src)) > dest_len
    THEN [status |-> MZ_BUF_ERROR, out |-> <<>>]
    ELSE [status |-> Z_OK, out |-> ZlibStream(src)]

\* mz_uncompress(dest, &dest_len, src, src_len): out is what was written to
\* dest, whose length is the new dest_len
mz_uncompress(dest_len, src) ==
    IF Len(src) < 11 \/ SubSeq(src, 1, 2) # ZlibHeader \/ src[3] # 1
    THEN [status |-> MZ_DATA_ERROR, out |-> <<>>]
    ELSE LET n == src[4] + 256 * src[5]
         IN  IF src[6] # 255 - src[4] \/ src[7] # 255 - src[5] \/ Len(src) < 11 + n
             THEN [status |-> MZ_DATA_ERROR, out |-> <<>>]
             ELSE LET data == SubSeq(src, 8, 7 + n)
                  IN  IF n > dest_len
                      THEN [status |-> MZ_BUF_ERROR, out |-> <<>>]
                      ELSE IF SubSeq(src, 8 + n, 11 + n) # Adler32Bytes(data)
                      THEN [status |-> MZ_DATA_ERROR, out |-> <<>>]
                      ELSE [status |-> Z_OK, out |-> data]

(***************************************************************************)
(* CppBackend::compressBuffer / CppBackend::decompressBuffer               *)
(***************************************************************************)
\* faulty variant: the trailer written from csize instead of usize
compressBuffer_trailer_csize(data) ==
    LET r == mz_compress(mz_compressBound(Len(data)), data)
        csize == Len(r.out)
    IN  IF r.status # Z_OK
        THEN <<>>
        ELSE r.out \o LittleEndian(csize, SizeofU64)

compressBuffer(data) ==
    LET usize == Len(data)
        bound == mz_compressBound(usize)
        r     == mz_compress(bound, data)
        csize == Len(r.out)
        \* compressed.resize(bound); mz_compress fills the first csize bytes
        compressed == MemcpyAt(Zeros(bound), 0, r.out)
    IN  IF r.status # Z_OK
        THEN <<>>
        ELSE Resize(MemcpyAt(compressed, csize, LittleEndian(usize, SizeofU64)),
                    csize + SizeofU64)

\* faulty variant: the result cut to the length mz_uncompress reported
decompressBuffer_reported_length(data) ==
    LET csize == Len(data) - SizeofU64
        usize == FromLittleEndian(SubSeq(data, csize + 1, Len(data)))
        r     == mz_uncompress(usize, SubSeq(data, 1, csize))
    IN  IF r.status # Z_OK
        THEN <<>>
        ELSE r.out

\* blobs shorter than the trailer are not handed to decompressBuffer
decompressBuffer(data) ==
    LET csize == Len(data) - SizeofU64
        usize == FromLittleEndian(SubSeq(data, csize + 1, Len(data)))
        r     == mz_uncompress(usize, SubSeq(data, 1, csize))
    IN  IF r.status # Z_OK
        THEN <<>>
        ELSE MemcpyAt(Zeros(usize), 0, r.out)

(***************************************************************************)
(* Codec: a byte string is packed and unpacked again                       *)
(***************************************************************************)
CodecIdle ==
    /\ cx_pc = "idle"
    /\ cx_in = <<>>
    /\ cx_blob = <<>>
    /\ cx_out = <<>>

CodecInit ==
    /\ cx_pc = "start"
    /\ cx_in \in SeqsUpTo(ByteVals, MaxLen)
    /\ cx_blob = <<>>
    /\ cx_out = <<>>

Compress ==
    /\ cx_pc = "start"
    /\ cx_blob' = compressBuffer(cx_in)
    /\ cx_pc' = "compressed"
    /\ UNCHANGED <<cx_in, cx_out>>
    /\ UNCHANGED <<sandboxVars, runVars, compileVars, scanVars>>

Decompress ==
    /\ cx_pc = "compressed"
    /\ Len(cx_blob) >= SizeofU64
    /\ cx_out' = decompressBuffer(cx_blob)
    /\ cx_pc' = "decompressed"
    /\ UNCHANGED <<cx_in, cx_blob>>
    /\ UNCHANGED <<sandboxVars, runVars, compileVars, scanVars>>

CodecNext == Compress \/ Decompress

(***************************************************************************)
(* Sandbox library: paths, syscalls and their arguments                    *)
(***************************************************************************)
EtcResolvConf == <<"/","e","t","c","/","r","e","s","o","l","v",".","c","o","n","f">>
EtcResolv     == <<"/","e","t","c","/","r","e","s","o","l","v">>
EtcResolvConfBak ==
    <<"/","e","t","c","/","r","e","s","o","l","v",".","c","o","n","f",".","b">>
EtcPasswd     == <<"/","e","t","c","/","p","a","s","s","w","d">>
TmpA          == <<"/","t","/","a">>
TmpB          == <<"/","t","/","b">>
TmpStar       == <<"/","t","/","*">>
VarStar       == <<"/","v","/","*">>

\* the paths a sandboxed function passes to the path-bearing syscalls
Paths == {EtcResolvConf, EtcResolv, EtcResolvConfBak, EtcPasswd, TmpA, TmpStar}

\* the files that exist when the library is loaded (what glob() sees)
FilesOnDisk == {EtcResolvConf, EtcPasswd, TmpA, TmpB}

\* the initializer of files_allowed: the one of the source, and builds that
\* add wildcard entries ("Wildcards are allowed")
Configured ==
    { <<EtcResolvConf>>,
      <<EtcResolvConf, TmpStar>>,
      <<VarStar, EtcResolvConf>> }

\* <fcntl.h>, <sys/ioctl.h>, <errno.h>
O_RDONLY == 0
O_WRONLY == 1
O_RDWR == 2
O_ACCMODE == 3
O_CREAT == 64
FIONREAD == 21531
TCGETS == 21505
EPERM == 1
AT_FDCWD == 0 - 100

OpenFlags == {O_RDONLY, O_WRONLY, O_RDWR, O_CREAT, O_WRONLY + O_CREAT}

PathSyscalls == {"stat", "lstat", "open", "openat"}

\* the syscalls the filter names, in the order of the ALLOW lines
FilterSyscalls ==
    <<"brk", "exit_group", "socket", "setsockopt", "ioctl", "connect", "select",
      "poll", "read", "recv", "recvfrom", "write", "send", "sendto", "sendmsg",
      "close", "stat", "lstat", "fstat", "fstat64", "open", "openat", "mmap",
      "mmap2", "munmap", "lseek", "_llseek", "futex", "uname", "mprotect">>

\* syscalls outside the filter that a function may issue
OtherSyscalls == {"unlink", "execve", "getpid"}

\* the calls a sandboxed function issues: [nr, arg0, arg1, arg2]
Calls ==
    {[nr |-> n, arg0 |-> p, arg1 |-> 0, arg2 |-> 0] : n \in {"stat", "lstat"}, p \in Paths}
    \cup {[nr |-> "open", arg0 |-> p, arg1 |-> f, arg2 |-> 0] : p \in Paths, f \in OpenFlags}
    \cup {[nr |-> "openat", arg0 |-> AT_FDCWD, arg1 |-> p, arg2 |-> f] :
             p \in Paths, f \in OpenFlags}
    \cup {[nr |-> "ioctl", arg0 |-> 3, arg1 |-> r, arg2 |-> 0] : r \in {FIONREAD, TCGETS}}
    \cup {[nr |-> n, arg0 |-> 3, arg1 |-> 0, arg2 |-> 0] :
             n \in ({FilterSyscalls[i] : i \in 1..Len(FilterSyscalls)}
                        \ (PathSyscalls \cup {"ioctl"})) \cup OtherSyscalls}

RECURSIVE BitAnd(_, _)
BitAnd(a, b) ==
    IF a = 0 \/ b = 0 THEN 0
    ELSE (a % 2) * (b % 2) + 2 * BitAnd(a \div 2, b \div 2)

(***************************************************************************)
(* syscall_intercept: rc is what the hook returns (0: the hook took the    *)
(* call over, non-zero: the original syscall is executed), ret is the      *)
(* return slot                                                             *)
(***************************************************************************)
\* faulty variant: only the length of the entry is compared (strncmp)
test_file_ok_prefix(files, path, ret) ==
    IF \E i \in 1..Len(files) :
          Len(files[i]) <= Len(path) /\ SubSeq(path, 1, Len(files[i])) = files[i]
    THEN [rc |-> 1, ret |-> ret]
    ELSE [rc |-> 0, ret |-> 0 - EPERM]

test_file_ok(files, path, ret) ==
    IF \E i \in 1..Len(files) : files[i] = path
    THEN [rc |-> 1, ret |-> ret]
    ELSE [rc |-> 0, ret |-> 0 - EPERM]

syscall_intercept(files, syscall_nr, arg0, arg1, ret) ==
    CASE syscall_nr \in {"stat", "lstat", "open"} -> test_file_ok(files, arg0, ret)
      [] syscall_nr = "openat" -> test_file_ok(files, arg1, ret)
      [] OTHER -> [rc |-> 1, ret |-> ret]

(***************************************************************************)
(* syscall_intercept_init (the library's constructor)                      *)
(***************************************************************************)
\* path.find("*") != std::string::npos
HasStar(path) == \E i \in 1..Len(path) : path[i] = "*"

\* glob(3) matching of one pattern against one path: '*' matches any run of
\* characters other than '/'
RECURSIVE GlobMatch(_, _)
GlobMatch(pat, s) ==
    IF pat = <<>> THEN s = <<>>
    ELSE IF Head(pat) = "*"
         THEN \/ GlobMatch(Tail(pat), s)
              \/ (s # <<>> /\ Head(s) # "/" /\ GlobMatch(pat, Tail(s)))
         ELSE s # <<>> /\ Head(s) = Head(pat) /\ GlobMatch(Tail(pat), Tail(s))

Perms(S) ==
    {q \in [1..Cardinality(S) -> S] : \A i, j \in 1..Cardinality(S) : q[i] = q[j] => i = j}

\* what glob(path, GLOB_NOSORT, NULL, &globbuf) can give: a non-zero return
\* (no match, or an error), or the matches in any order
GlobOutcomes(pat) ==
    LET m == {f \in FilesOnDisk : GlobMatch(pat, f)}
    IN  {[rc |-> 1, pathv |-> <<>>]}
        \cup (IF m = {} THEN {} ELSE {[rc |-> 0, pathv |-> q] : q \in Perms(m)})

\* faulty variant: a pattern whose glob() fails stays in the list
RECURSIVE ExpandFiles_keep_pattern(_, _, _)
ExpandFiles_keep_pattern(files, globs, i) ==
    IF i > Len(files) THEN <<>>
    ELSE (IF ~HasStar(files[i]) THEN <<files[i]>>
          ELSE IF globs[i].rc # 0 THEN <<files[i]>>
          ELSE globs[i].pathv)
         \o ExpandFiles_keep_pattern(files, globs, i + 1)

\* the loop over files[]: globs[i] is the outcome of glob() for files[i]
RECURSIVE ExpandFiles(_, _, _)
ExpandFiles(files, globs, i) ==
    IF i > Len(files) THEN <<>>
    ELSE (IF ~HasStar(files[i]) THEN <<files[i]>>
          ELSE IF globs[i].rc # 0 THEN <<>>
          ELSE globs[i].pathv)
         \o ExpandFiles(files, globs, i + 1)

NoCall == [nr |-> "none", arg0 |-> 0, arg1 |-> 0, arg2 |-> 0,
           ret0 |-> 0, rc |-> 1, ret |-> 0, dispatched |-> FALSE,
           filtered |-> FALSE, killed |-> FALSE]

SandboxIdle ==
    /\ sb_pc = "idle"
    /\ files_allowed = <<>>
    /\ sb_hook = FALSE
    /\ sb_filter = <<>>
    /\ sb_alive = FALSE
    /\ sb_inits = <<>>
    /\ sb_last = NoCall

SandboxInit ==
    /\ sb_pc = "unloaded"
    /\ files_allowed \in Configured
    /\ sb_hook = FALSE
    /\ sb_filter = <<>>
    /\ sb_alive = TRUE
    /\ sb_inits = <<>>
    /\ sb_last = NoCall

syscall_intercept_init ==
    /\ sb_pc = "unloaded"
    /\ \E globs \in [1..Len(files_allowed) ->
                        UNION {GlobOutcomes(files_allowed[i]) : i \in 1..Len(files_allowed)}] :
          /\ \A i \in 1..Len(files_allowed) : globs[i] \in GlobOutcomes(files_allowed[i])
          /\ files_allowed' = ExpandFiles(files_allowed, globs, 1)
    /\ sb_hook' = TRUE
    /\ sb_pc' = "loaded"
    /\ UNCHANGED <<sb_filter, sb_alive, sb_inits, sb_last>>
    /\ UNCHANGED <<codecVars, runVars, compileVars, scanVars>>

(***************************************************************************)
(* syscall_filter_init: the seccomp filter                                 *)
(***************************************************************************)
\* one ALLOW line: the syscall and its argument comparisons
\* [arg, op, a, b]: SCMP_An(op, a, b)
\* faulty variant: ALLOW(ioctl) without the comparison on the request
FilterRule_ioctl_any(name) ==
    [sys |-> name,
     cmps |-> CASE name = "open"   -> <<[arg |-> 1, op |-> "MASKED_EQ", a |-> O_RDONLY, b |-> O_RDONLY]>>
                [] name = "openat" -> <<[arg |-> 2, op |-> "MASKED_EQ", a |-> O_RDONLY, b |-> O_RDONLY]>>
                [] OTHER -> <<>>]

FilterRule(name) ==
    [sys |-> name,
     cmps |-> CASE name = "ioctl"  -> <<[arg |-> 1, op |-> "EQ", a |-> FIONREAD, b |-> 0]>>
                [] name = "open"   -> <<[arg |-> 1, op |-> "MASKED_EQ", a |-> O_RDONLY, b |-> O_RDONLY]>>
                [] name = "openat" -> <<[arg |-> 2, op |-> "MASKED_EQ", a |-> O_RDONLY, b |-> O_RDONLY]>>
                [] OTHER -> <<>>]

FilterRules == [i \in 1..Len(FilterSyscalls) |-> FilterRule(FilterSyscalls[i])]

ArgOf(call, n) == CASE n = 0 -> call.arg0 [] n = 1 -> call.arg1 [] OTHER -> call.arg2

\* libseccomp: SCMP_CMP_EQ is arg == a; SCMP_CMP_MASKED_EQ is (arg & a) == b
CmpHolds(cmp, call) ==
    IF cmp.op = "EQ" THEN ArgOf(call, cmp.arg) = cmp.a
    ELSE BitAnd(ArgOf(call, cmp.arg), cmp.a) = cmp.b

\* the kernel's verdict under the loaded rules (default: SCMP_ACT_KILL_PROCESS)
Admitted(rules, call) ==
    \E i \in 1..Len(rules) :
        /\ rules[i].sys = call.nr
        /\ \A k \in 1..Len(rules[i].cmps) : CmpHolds(rules[i].cmps[k], call)

\* seccomp_load() enters the kernel through prctl() and seccomp()
LoadCalls ==
    {[nr |-> n, arg0 |-> 0, arg1 |-> 0, arg2 |-> 0] : n \in {"prctl", "seccomp"}}

\* outcome: a seccomp_rule_add fails, seccomp_load fails, or all succeed
syscall_filter_init ==
    /\ sb_pc = "loaded"
    /\ sb_alive
    /\ Len(sb_inits) < MaxInits
    /\ \E outcome \in {"rule_add_failed", "load_failed", "ok"} :
          IF outcome = "rule_add_failed"
          THEN /\ sb_inits' = Append(sb_inits, FALSE)
               /\ UNCHANGED <<sb_filter, sb_alive>>
          ELSE IF sb_filter # <<>> /\ \E c \in LoadCalls : ~Admitted(sb_filter, c)
          THEN \* the filter already loaded kills the process inside seccomp_load
               /\ sb_alive' = FALSE
               /\ UNCHANGED <<sb_filter, sb_inits>>
          ELSE IF outcome = "load_failed"
          THEN /\ sb_inits' = Append(sb_inits, FALSE)
               /\ UNCHANGED <<sb_filter, sb_alive>>
          ELSE /\ sb_inits' = Append(sb_inits, TRUE)
               /\ sb_filter' = FilterRules
               /\ UNCHANGED sb_alive
    /\ UNCHANGED <<sb_pc, files_allowed, sb_hook, sb_last>>
    /\ UNCHANGED <<codecVars, runVars, compileVars, scanVars>>

(***************************************************************************)
(* A syscall of the sandboxed function: the hook first, then the kernel    *)
(***************************************************************************)
Syscall ==
    /\ sb_pc = "loaded"
    /\ sb_alive
    /\ \E call \in Calls, ret0 \in {0, 5} :
          LET h == IF sb_hook
                   THEN syscall_intercept(files_allowed, call.nr, call.arg0, call.arg1, ret0)
                   ELSE [rc |-> 1, ret |-> ret0]
              dispatched == h.rc # 0
              killed == dispatched /\ sb_filter # <<>> /\ ~Admitted(sb_filter, call)
          IN  /\ sb_last' = [nr |-> call.nr, arg0 |-> call.arg0, arg1 |-> call.arg1,
                             arg2 |-> call.arg2, ret0 |-> ret0, rc |-> h.rc,
                             ret |-> h.ret, dispatched |-> dispatched,
                             filtered |-> sb_filter # <<>>, killed |-> killed]
              /\ sb_alive' = ~killed
    /\ UNCHANGED <<sb_pc, files_allowed, sb_hook, sb_filter, sb_inits>>
    /\ UNCHANGED <<codecVars, runVars, compileVars, scanVars>>

SandboxNext == syscall_intercept_init \/ syscall_filter_init \/ Syscall

(***************************************************************************)
(* CppBackend::run                                                         *)
(***************************************************************************)
\* the image of a shared object, and a blob whose payload is damaged
SoImage == <<1, 255>>

DamagedBlob == MemcpyAt(compressBuffer(SoImage), 2, <<0>>)

RunBlobs == {compressBuffer(SoImage), DamagedBlob, compressBuffer(<<>>)}

\* dataset descriptors: name, datatype, dimensions, data pointer
OutputDataset(grid, storage) ==
    [name |-> "out", datatype |-> "int32", dimensions |-> <<grid>>,
     storage |-> storage, data |-> "output_buffer"]

InputDatasets ==
    { [name |-> "a", datatype |-> "float", dimensions |-> <<2>>, storage |-> 4,
       data |-> "a_buffer"],
      [name |-> "b", datatype |-> "int16", dimensions |-> <<3, 1>>, storage |-> 2,
       data |-> "b_buffer"] }

StorageSizes == {1, 2}

\* what the caller's buffer holds before run
InitialOutput(n) == [i \in 1..n |-> 170]

\* the values the function stores
UdfBytes == {7}

\* getGridSize() * getStorageSize()
RECURSIVE Product(_)
Product(dims) == IF dims = <<>> THEN 1 ELSE Head(dims) * Product(Tail(dims))

RoomSize(output_dataset) == Product(output_dataset.dimensions) * output_dataset.storage

EmptyTables == [data |-> <<>>, names |-> <<>>, types |-> <<>>, dims |-> <<>>]

RECURSIVE PushAll(_, _, _)
PushAll(tables, dataset_info, i) ==
    IF i > Len(dataset_info) THEN tables
    ELSE PushAll([data  |-> Append(tables.data, dataset_info[i].data),
                  names |-> Append(tables.names, dataset_info[i].name),
                  types |-> Append(tables.types, dataset_info[i].datatype),
                  dims  |-> Append(tables.dims, dataset_info[i].dimensions)],
                 dataset_info, i + 1)

\* faulty variant: the output descriptor pushed without the retargeted pointer
PopulateTables_no_retarget(tables, output_dataset, input_datasets, mm) ==
    PushAll(tables, <<output_dataset>> \o input_datasets, 1)

\* output_dataset_copy.data = mm.mm; dataset_info = [copy, inputs...]; the loop
PopulateTables(tables, output_dataset, input_datasets, mm) ==
    LET output_dataset_copy == [output_dataset EXCEPT !.data = mm]
    IN  PushAll(tables, <<output_dataset_copy>> \o input_datasets, 1)

NoEnd == [how |-> "none", code |-> 0]

RunIdle ==
    /\ r_pc = "idle"
    /\ r_in = [blob |-> <<>>, output |-> OutputDataset(1, 1), inputs |-> <<>>,
               sandbox |-> FALSE]
    /\ r_shlib = <<>>
    /\ r_sofile = "none"
    /\ r_region = <<>>
    /\ r_output = <<>>
    /\ r_failed = "none"
    /\ r_pid = "none"
    /\ r_wait = "none"
    /\ r_ret = "none"
    /\ ch_pc = "none"
    /\ ch_tables = EmptyTables
    /\ ch_calls = 0
    /\ ch_writes = 0
    /\ ch_fail = "none"
    /\ ch_end = NoEnd

RunInit ==
    /\ r_pc = "start"
    /\ r_in \in [blob : RunBlobs,
                 output : {OutputDataset(g, st) : g \in 1..MaxGrid, st \in StorageSizes},
                 inputs : SeqsUpTo(InputDatasets, MaxInputs),
                 sandbox : BOOLEAN]
    /\ r_shlib = <<>>
    /\ r_sofile = "none"
    /\ r_region = <<>>
    /\ r_output = InitialOutput(RoomSize(r_in.output))
    /\ r_failed = "none"
    /\ r_pid = "none"
    /\ r_wait = "none"
    /\ r_ret = "none"
    /\ ch_pc = "none"
    /\ ch_tables = EmptyTables
    /\ ch_calls = 0
    /\ ch_writes = 0
    /\ ch_fail = "none"
    /\ ch_end = NoEnd

parentVars == <<r_pc, r_shlib, r_sofile, r_output, r_failed, r_pid, r_wait, r_ret>>
childVars == <<ch_pc, ch_tables, ch_calls, ch_writes, ch_fail, ch_end>>
otherVars == <<codecVars, sandboxVars, compileVars, scanVars>>

\* decompressBuffer, and the test of its size
RunDecompress ==
    /\ r_pc = "start"
    /\ r_shlib' = decompressBuffer(r_in.blob)
    /\ IF Len(r_shlib') = 0
       THEN r_pc' = "returned" /\ r_ret' = "false" /\ r_failed' = "decompress"
       ELSE r_pc' = "unpacked" /\ UNCHANGED <<r_ret, r_failed>>
    /\ UNCHANGED <<r_in, r_sofile, r_region, r_output, r_pid, r_wait>>
    /\ UNCHANGED <<childVars, otherVars>>

\* Backend::writeToDisk gives the file's name, or "" when it could not write
RunWriteToDisk ==
    /\ r_pc = "unpacked"
    /\ \E written \in BOOLEAN :
          IF written
          THEN r_pc' = "materialized" /\ r_sofile' = "ondisk"
               /\ UNCHANGED <<r_ret, r_failed>>
          ELSE r_pc' = "returned" /\ r_ret' = "false" /\ r_failed' = "write"
               /\ UNCHANGED r_sofile
    /\ UNCHANGED <<r_in, r_shlib, r_region, r_output, r_pid, r_wait>>
    /\ UNCHANGED <<childVars, otherVars>>

\* AnonymousMemoryMap mm(room_size); mm.create()
RunCreateRegion ==
    /\ r_pc = "materialized"
    /\ \E created \in BOOLEAN :
          IF created
          THEN r_pc' = "mapped" /\ r_region' = Zeros(RoomSize(r_in.output))
               /\ UNCHANGED <<r_ret, r_failed, r_sofile>>
          ELSE r_pc' = "returned" /\ r_ret' = "false" /\ r_failed' = "map"
               /\ r_sofile' = "unlinked"
               /\ UNCHANGED r_region
    /\ UNCHANGED <<r_in, r_shlib, r_output, r_pid, r_wait>>
    /\ UNCHANGED <<childVars, otherVars>>

\* fork(): a child, or -1, on which neither branch is taken and run goes on
\* to unlink and return true
RunFork ==
    /\ r_pc = "mapped"
    /\ \E forked \in BOOLEAN :
          IF forked
          THEN r_pc' = "forked" /\ r_pid' = "child" /\ ch_pc' = "open"
               /\ UNCHANGED <<r_ret, r_failed, r_sofile>>
          ELSE r_pc' = "returned" /\ r_pid' = "error" /\ r_failed' = "fork"
               /\ r_sofile' = "unlinked" /\ r_ret' = "true"
               /\ UNCHANGED ch_pc
    /\ UNCHANGED <<r_in, r_shlib, r_region, r_output, r_wait>>
    /\ UNCHANGED <<ch_tables, ch_calls, ch_writes, ch_fail, ch_end, otherVars>>

\* waitpid(pid, NULL, 0): returns pid once the child has ended, or -1 (EINTR)
\* when a signal handler of the host interrupts it; the result is not looked at
RunWaitpid ==
    /\ r_pc = "forked"
    /\ \/ ch_pc = "dead" /\ r_wait' = "pid"
       \/ ch_pc # "dead" /\ r_wait' = "eintr"
    /\ r_pc' = "waited"
    /\ UNCHANGED <<r_in, r_shlib, r_sofile, r_region, r_output, r_failed, r_pid, r_ret>>
    /\ UNCHANGED <<childVars, otherVars>>

\* faulty variant: one byte short
CopyOut_short(output, region, room_size) ==
    [i \in 1..Len(output) |-> IF i < room_size THEN region[i] ELSE output[i]]

\* memcpy(output_dataset.data, mm.mm, room_size)
CopyOut(output, region, room_size) ==
    [i \in 1..Len(output) |-> IF i <= room_size THEN region[i] ELSE output[i]]

RunMemcpy ==
    /\ r_pc = "waited"
    /\ r_output' = CopyOut(r_output, r_region, RoomSize(r_in.output))
    /\ r_pc' = "copied"
    /\ UNCHANGED <<r_in, r_shlib, r_sofile, r_region, r_failed, r_pid, r_wait, r_ret>>
    /\ UNCHANGED <<childVars, otherVars>>

\* unlink(so_file.c_str()); return true
RunUnlinkReturn ==
    /\ r_pc = "copied"
    /\ r_sofile' = "unlinked"
    /\ r_ret' = "true"
    /\ r_pc' = "returned"
    /\ UNCHANGED <<r_in, r_shlib, r_region, r_output, r_failed, r_pid, r_wait>>
    /\ UNCHANGED <<childVars, otherVars>>

\* ---- the child ----
\* shlib.open(so_file): on failure, return false
ChildOpen ==
    /\ ch_pc = "open"
    /\ \E opened \in BOOLEAN :
          /\ opened => r_sofile = "ondisk"
          /\ IF opened
             THEN ch_pc' = "loadsym" /\ UNCHANGED ch_fail
             ELSE ch_pc' = "host" /\ ch_fail' = "open"
    /\ UNCHANGED <<ch_tables, ch_calls, ch_writes, ch_end>>
    /\ UNCHANGED <<r_in, r_region, parentVars, otherVars>>

Symbols == {"dynamic_dataset", "hdf5_udf_data", "hdf5_udf_names", "hdf5_udf_types",
            "hdf5_udf_dims"}

\* the five shlib.loadsym(): if any gave null, return false
ChildLoadsym ==
    /\ ch_pc = "loadsym"
    /\ \E missing \in {{}, {"dynamic_dataset"}, {"hdf5_udf_dims"}, Symbols} :
          IF missing = {}
          THEN ch_pc' = "populate" /\ ch_tables' = EmptyTables /\ UNCHANGED ch_fail
          ELSE ch_pc' = "host" /\ ch_fail' = "loadsym" /\ UNCHANGED ch_tables
    /\ UNCHANGED <<ch_calls, ch_writes, ch_end>>
    /\ UNCHANGED <<r_in, r_region, parentVars, otherVars>>

ChildPopulate ==
    /\ ch_pc = "populate"
    /\ ch_tables' = PopulateTables(ch_tables, r_in.output, r_in.inputs, "mm.mm")
    /\ ch_pc' = "sandbox"
    /\ UNCHANGED <<ch_calls, ch_writes, ch_fail, ch_end>>
    /\ UNCHANGED <<r_in, r_region, parentVars, otherVars>>

\* faulty variant: udf() is called whatever sandbox.init returned
ChildSandboxInit_always_calls ==
    /\ ch_pc = "sandbox"
    /\ \E ready \in (IF r_in.sandbox THEN BOOLEAN ELSE {TRUE}) :
          /\ ch_pc' = "udf"
          /\ ch_calls' = ch_calls + 1
          /\ ch_fail' = IF ready THEN ch_fail ELSE "sandbox"
          /\ UNCHANGED ch_end
    /\ UNCHANGED <<ch_tables, ch_writes>>
    /\ UNCHANGED <<r_in, r_region, parentVars, otherVars>>

\* ready = true, or sandbox.init(filterpath) under ENABLE_SANDBOX;
\* if (ready) udf(); else _exit(1)
ChildSandboxInit ==
    /\ ch_pc = "sandbox"
    /\ \E ready \in (IF r_in.sandbox THEN BOOLEAN ELSE {TRUE}) :
          IF ready
          THEN /\ ch_pc' = "udf"
               /\ ch_calls' = ch_calls + 1
               /\ UNCHANGED <<ch_fail, ch_end>>
          ELSE /\ ch_pc' = "dead"
               /\ ch_fail' = "sandbox"
               /\ ch_end' = [how |-> "_exit", code |-> 1]
               /\ UNCHANGED ch_calls
    /\ UNCHANGED <<ch_tables, ch_writes>>
    /\ UNCHANGED <<r_in, r_region, parentVars, otherVars>>

\* the function stores a byte through hdf5_udf_data[0]
UdfWrite ==
    /\ ch_pc = "udf"
    /\ ch_writes < MaxWrites
    /\ ch_tables.data[1] = "mm.mm"
    /\ \E i \in 1..Len(r_region), b \in UdfBytes : r_region' = [r_region EXCEPT ![i] = b]
    /\ ch_writes' = ch_writes + 1
    /\ UNCHANGED <<ch_pc, ch_tables, ch_calls, ch_fail, ch_end>>
    /\ UNCHANGED <<r_in, parentVars, otherVars>>

\* udf() returns; _exit(0)
UdfReturn ==
    /\ ch_pc = "udf"
    /\ ch_pc' = "dead"
    /\ ch_end' = [how |-> "_exit", code |-> 0]
    /\ UNCHANGED <<ch_tables, ch_calls, ch_writes, ch_fail>>
    /\ UNCHANGED <<r_in, r_region, parentVars, otherVars>>

\* the function crashes, or the seccomp filter kills the process
UdfKilled ==
    /\ ch_pc = "udf"
    /\ ch_pc' = "dead"
    /\ \E sig \in {11, 31} : ch_end' = [how |-> "signal", code |-> sig]
    /\ UNCHANGED <<ch_tables, ch_calls, ch_writes, ch_fail>>
    /\ UNCHANGED <<r_in, r_region, parentVars, otherVars>>

\* the child that returned false from run goes on in the host's code, and
\* ends there
HostEnds ==
    /\ ch_pc = "host"
    /\ ch_pc' = "dead"
    /\ ch_end' = [how |-> "host", code |-> 0]
    /\ UNCHANGED <<ch_tables, ch_calls, ch_writes, ch_fail>>
    /\ UNCHANGED <<r_in, r_region, parentVars, otherVars>>

RunNext ==
    \/ RunDecompress
    \/ RunWriteToDisk
    \/ RunCreateRegion
    \/ RunFork
    \/ RunWaitpid
    \/ RunMemcpy
    \/ RunUnlinkReturn
    \/ ChildOpen
    \/ ChildLoadsym
    \/ ChildPopulate
    \/ ChildSandboxInit
    \/ UdfWrite
    \/ UdfReturn
    \/ UdfKilled
    \/ HostEnds

(***************************************************************************)
(* CppBackend::compile, called concurrently                                *)
(***************************************************************************)
Callers == {1, 2}

UdfFiles == {"u.cpp", "v.cpp"}

\* what the compiler of a caller writes: each caller has its own template, so
\* the objects differ
SoOf(i) == <<127, i>>

NoFile == [exists |-> FALSE, bytes |-> <<>>]

CompileIdle ==
    /\ c_pc = [i \in Callers |-> "idle"]
    /\ c_udf = [i \in Callers |-> "u.cpp"]
    /\ c_cpp = [i \in Callers |-> "none"]
    /\ c_cc = [i \in Callers |-> "none"]
    /\ c_statok = [i \in Callers |-> FALSE]
    /\ c_bytecode = [i \in Callers |-> <<>>]
    /\ c_result = [i \in Callers |-> <<>>]
    /\ fs_so = [u \in UdfFiles |-> NoFile]

CompileInit ==
    /\ c_pc = [i \in Callers |-> "start"]
    /\ c_udf \in [Callers -> UdfFiles]
    /\ c_cpp = [i \in Callers |-> "none"]
    /\ c_cc = [i \in Callers |-> "none"]
    /\ c_statok = [i \in Callers |-> FALSE]
    /\ c_bytecode = [i \in Callers |-> <<>>]
    /\ c_result = [i \in Callers |-> <<>>]
    /\ fs_so = [u \in UdfFiles |-> NoFile]

notCompileVars == <<codecVars, sandboxVars, runVars, scanVars>>

\* Backend::assembleUDF: a freshly named file of the caller, or "" on failure
CompileAssemble(i) ==
    /\ c_pc[i] = "start"
    /\ \E assembled \in BOOLEAN :
          IF assembled
          THEN /\ c_cpp' = [c_cpp EXCEPT ![i] = "ondisk"]
               /\ c_pc' = [c_pc EXCEPT ![i] = "assembled"]
          ELSE /\ c_pc' = [c_pc EXCEPT ![i] = "returned"]
               /\ UNCHANGED c_cpp
    /\ UNCHANGED <<c_udf, c_cc, c_statok, c_bytecode, c_result, fs_so>>
    /\ UNCHANGED notCompileVars

\* output = udf_file + ".so"; fork(): on -1, "Failed to execute g++", return ""
CompileFork(i) ==
    /\ c_pc[i] = "assembled"
    /\ \E forked \in BOOLEAN :
          IF forked
          THEN /\ c_cc' = [c_cc EXCEPT ![i] = "running"]
               /\ c_pc' = [c_pc EXCEPT ![i] = "forked"]
          ELSE /\ c_pc' = [c_pc EXCEPT ![i] = "returned"]
               /\ UNCHANGED c_cc
    /\ UNCHANGED <<c_udf, c_cpp, c_statok, c_bytecode, c_result, fs_so>>
    /\ UNCHANGED notCompileVars

\* the child: execvp g++ ... -o output cpp_file; it writes the object, or
\* stops on an error and writes none
CompilerRuns(i) ==
    /\ c_cc[i] = "running"
    /\ \E built \in BOOLEAN :
          /\ built => c_cpp[i] = "ondisk"
          /\ IF built
             THEN /\ fs_so' = [fs_so EXCEPT ![c_udf[i]] = [exists |-> TRUE, bytes |-> SoOf(i)]]
                  /\ c_cc' = [c_cc EXCEPT ![i] = "wrote"]
             ELSE /\ c_cc' = [c_cc EXCEPT ![i] = "failed"]
                  /\ UNCHANGED fs_so
    /\ UNCHANGED <<c_pc, c_udf, c_cpp, c_statok, c_bytecode, c_result>>
    /\ UNCHANGED notCompileVars

\* wait4(pid, &exit_status, 0, NULL): returns once the compiler has ended, or
\* -1 (EINTR) while it still runs; its result and the exit status are not
\* looked at
CompileWait(i) ==
    /\ c_pc[i] = "forked"
    /\ c_cc[i] \in {"wrote", "failed", "running"}
    /\ c_pc' = [c_pc EXCEPT ![i] = "waited"]
    /\ UNCHANGED <<c_udf, c_cpp, c_cc, c_statok, c_bytecode, c_result, fs_so>>
    /\ UNCHANGED notCompileVars

\* stat(output.c_str(), &statbuf) == 0
CompileStat(i) ==
    /\ c_pc[i] = "waited"
    /\ c_statok' = [c_statok EXCEPT ![i] = fs_so[c_udf[i]].exists]
    /\ c_pc' = [c_pc EXCEPT ![i] = IF fs_so[c_udf[i]].exists THEN "found" ELSE "missing"]
    /\ UNCHANGED <<c_udf, c_cpp, c_cc, c_bytecode, c_result, fs_so>>
    /\ UNCHANGED notCompileVars

\* std::ifstream data(output); bytecode.assign(...): nothing is read from a
\* file that is gone
CompileRead(i) ==
    /\ c_pc[i] = "found"
    /\ c_bytecode' = [c_bytecode EXCEPT ![i] = fs_so[c_udf[i]].bytes]
    /\ c_pc' = [c_pc EXCEPT ![i] = "read"]
    /\ UNCHANGED <<c_udf, c_cpp, c_cc, c_statok, c_result, fs_so>>
    /\ UNCHANGED notCompileVars

\* unlink(output.c_str())
CompileUnlinkOutput(i) ==
    /\ c_pc[i] = "read"
    /\ fs_so' = [fs_so EXCEPT ![c_udf[i]] = NoFile]
    /\ c_pc' = [c_pc EXCEPT ![i] = "unlinked"]
    /\ UNCHANGED <<c_udf, c_cpp, c_cc, c_statok, c_bytecode, c_result>>
    /\ UNCHANGED notCompileVars

\* unlink(cpp_file.c_str()); return compressBuffer(bytecode.data(), bytecode.size())
CompileReturn(i) ==
    /\ c_pc[i] \in {"unlinked", "missing"}
    /\ c_cpp' = [c_cpp EXCEPT ![i] = "unlinked"]
    /\ c_result' = [c_result EXCEPT ![i] = compressBuffer(c_bytecode[i])]
    /\ c_pc' = [c_pc EXCEPT ![i] = "returned"]
    /\ UNCHANGED <<c_udf, c_cc, c_statok, c_bytecode, fs_so>>
    /\ UNCHANGED notCompileVars

CompileNext ==
    \E i \in Callers :
        \/ CompileAssemble(i)
        \/ CompileFork(i)
        \/ CompilerRuns(i)
        \/ CompileWait(i)
        \/ CompileStat(i)
        \/ CompileRead(i)
        \/ CompileUnlinkOutput(i)
        \/ CompileReturn(i)

(***************************************************************************)
(* CppBackend::udfDatasetNames: the preprocessor child writes to a pipe,   *)
(* the parent collects what it reads and parses it line by line            *)
(***************************************************************************)
\* most pieces of text the preprocessor writes
MaxSegs == 4

\* sizeof(buf)
BufSize == 8192

\* std::string::npos, the largest size_t: npos + 1 wraps to 0, as (0 - 1) + 1 does
NPOS == 0 - 1

Needle == <<"l", "i", "b", ".", "g", "e", "t", "D", "a", "t", "a">>
Quote == "\""
Newline == "\n"

\* the pieces the preprocessor's output is made of: the API call's name, an
\* argument list holding one string literal, and the end of a line
Segments ==
    { Needle,
      <<"(", Quote, "a", Quote, ")">>,
      <<"(", Quote, "b", Quote, ")">>,
      <<Newline>> }

RECURSIVE Flatten(_)
Flatten(segs) == IF segs = <<>> THEN <<>> ELSE Head(segs) \o Flatten(Tail(segs))

\* std::string::find(str): the 0-based index of the first occurrence, or npos
Find(s, str) ==
    LET hits == {i \in 0..(Len(s) - Len(str)) : SubSeq(s, i + 1, i + Len(str)) = str}
    IN  IF hits = {} THEN NPOS ELSE CHOOSE i \in hits : \A j \in hits : i <= j

\* std::string::find_first_of(c)
FindFirstOf(s, c) == Find(s, <<c>>)

\* std::string::substr(pos, count): count is cut to the end of the string
Substr(s, pos, count) ==
    SubSeq(s, pos + 1, IF count = NPOS \/ pos + count > Len(s) THEN Len(s) ELSE pos + count)

\* std::string::substr(pos)
SubstrFrom(s, pos) == Substr(s, pos, NPOS)

\* std::getline until it fails: the lines of the input, without their '\n'
RECURSIVE GetLines(_)
GetLines(input) ==
    IF input = <<>> THEN <<>>
    ELSE LET k == FindFirstOf(input, Newline)
         IN  IF k = NPOS THEN <<input>>
             ELSE <<Substr(input, 0, k)>> \o GetLines(SubstrFrom(input, k + 1))

\* the body of the getline loop: the names one line adds to output
ParseLine(line) ==
    LET n == Find(line, Needle)
        start == FindFirstOf(SubstrFrom(line, n), Quote)
        end == FindFirstOf(SubstrFrom(line, n + start + 1), Quote)
        name == Substr(SubstrFrom(line, n), start + 1, end)
    IN  IF n # NPOS THEN <<name>> ELSE <<>>

RECURSIVE ParseLines(_)
ParseLines(lines) ==
    IF lines = <<>> THEN <<>> ELSE ParseLine(Head(lines)) \o ParseLines(Tail(lines))

ScanIdle ==
    /\ sc_pc = "idle"
    /\ sc_text = <<>>
    /\ sc_sent = 0
    /\ sc_child = "none"
    /\ sc_pipe = <<>>
    /\ sc_input = <<>>
    /\ sc_output = <<>>

ScanInit ==
    /\ sc_pc = "start"
    /\ sc_text \in SeqsUpTo(Segments, MaxSegs)
    /\ sc_sent = 0
    /\ sc_child = "none"
    /\ sc_pipe = <<>>
    /\ sc_input = <<>>
    /\ sc_output = <<>>

notScanVars == <<codecVars, sandboxVars, runVars, compileVars>>

\* pipe() and fork(): either may fail, and then output is returned empty
ScanFork ==
    /\ sc_pc = "start"
    /\ \E ok \in BOOLEAN :
          IF ok
          THEN sc_pc' = "read" /\ sc_child' = "running"
          ELSE sc_pc' = "failed" /\ UNCHANGED sc_child
    /\ UNCHANGED <<sc_text, sc_sent, sc_pipe, sc_input, sc_output>>
    /\ UNCHANGED notScanVars

\* the preprocessor writes its next piece of output to its stdout, the pipe
ScanChildWrite ==
    /\ sc_child = "running"
    /\ sc_sent < Len(sc_text)
    /\ sc_pipe' = sc_pipe \o sc_text[sc_sent + 1]
    /\ sc_sent' = sc_sent + 1
    /\ UNCHANGED <<sc_pc, sc_text, sc_child, sc_input, sc_output>>
    /\ UNCHANGED notScanVars

\* the preprocessor has written everything and exits
ScanChildExit ==
    /\ sc_child = "running"
    /\ sc_sent = Len(sc_text)
    /\ sc_child' = "exited"
    /\ UNCHANGED <<sc_pc, sc_text, sc_sent, sc_pipe, sc_input, sc_output>>
    /\ UNCHANGED notScanVars

\* n = read(pipefd[0], buf, sizeof(buf)) on the non-blocking read end.  The
\* parent keeps pipefd[1] open, so an empty pipe gives EWOULDBLOCK, never 0.
ScanRead ==
    /\ sc_pc = "read"
    /\ IF sc_pipe = <<>>
       THEN /\ sc_pc' = "wait"
            /\ UNCHANGED <<sc_pipe, sc_input>>
       ELSE LET n == IF Len(sc_pipe) < BufSize THEN Len(sc_pipe) ELSE BufSize
            IN  /\ sc_input' = sc_input \o SubSeq(sc_pipe, 1, n)
                /\ sc_pipe' = SubSeq(sc_pipe, n + 1, Len(sc_pipe))
                /\ UNCHANGED sc_pc
    /\ UNCHANGED <<sc_text, sc_sent, sc_child, sc_output>>
    /\ UNCHANGED notScanVars

\* if (waitpid(pid, NULL, WNOHANG) == pid) break; continue;
ScanWaitpid ==
    /\ sc_pc = "wait"
    /\ IF sc_child = "exited"
       THEN sc_pc' = "parse" /\ sc_child' = "reaped"
       ELSE sc_pc' = "read" /\ UNCHANGED sc_child
    /\ UNCHANGED <<sc_text, sc_sent, sc_pipe, sc_input, sc_output>>
    /\ UNCHANGED notScanVars

\* the getline loop over the collected input
ScanParse ==
    /\ sc_pc = "parse"
    /\ sc_output' = ParseLines(GetLines(sc_input))
    /\ sc_pc' = "done"
    /\ UNCHANGED <<sc_text, sc_sent, sc_child, sc_pipe, sc_input>>
    /\ UNCHANGED notScanVars

ScanNext ==
    \/ ScanFork
    \/ ScanChildWrite
    \/ ScanChildExit
    \/ ScanRead
    \/ ScanWaitpid
    \/ ScanParse

InitScan == ScanInit /\ CodecIdle /\ SandboxIdle /\ RunIdle /\ CompileIdle

SpecScan == InitScan /\ [][ScanNext]_vars

InitCompile == CompileInit /\ CodecIdle /\ SandboxIdle /\ RunIdle /\ ScanIdle

SpecCompile == InitCompile /\ [][CompileNext]_vars

InitRun == RunInit /\ CodecIdle /\ SandboxIdle /\ CompileIdle /\ ScanIdle

SpecRun == InitRun /\ [][RunNext]_vars

InitSandbox == SandboxInit /\ CodecIdle /\ RunIdle /\ CompileIdle /\ ScanIdle

SpecSandbox == InitSandbox /\ [][SandboxNext]_vars

InitCodec == CodecInit /\ SandboxIdle /\ RunIdle /\ CompileIdle /\ ScanIdle

SpecCodec == InitCodec /\ [][CodecNext]_vars

(***************************************************************************)
(* decompressBuffer on blobs whose trailer is not the payload's length     *)
(***************************************************************************)
\* largest length a trailer states
MaxTrailer == 4

\* the last sizeof(uint64_t) bytes of a blob, read as decompressBuffer reads them
TrailerOf(blob) == FromLittleEndian(SubSeq(blob, Len(blob) - SizeofU64 + 1, Len(blob)))

\* a blob of compressBuffer with other bytes in the trailer's place
WithTrailer(blob, t) == MemcpyAt(blob, Len(blob) - SizeofU64, LittleEndian(t, SizeofU64))

UnpackInit ==
    /\ cx_pc = "compressed"
    /\ cx_in \in SeqsUpTo(ByteVals, MaxLen)
    /\ \E t \in 0..MaxTrailer : cx_blob = WithTrailer(compressBuffer(cx_in), t)
    /\ cx_out = <<>>

InitUnpack == UnpackInit /\ SandboxIdle /\ RunIdle /\ CompileIdle /\ ScanIdle

SpecUnpack == InitUnpack /\ [][Decompress]_vars

(***************************************************************************)
(* Properties                                                              *)
(***************************************************************************)
Range(f) == {f[i] : i \in DOMAIN f}

\* the path argument of a path-bearing call
PathArg(call) == IF call.nr = "openat" THEN call.arg1 ELSE call.arg0

\* C1: the interceptor takes a call over (hook returns 0, the return slot holds
\* -EPERM, the syscall is not executed) exactly when the call is stat, lstat,
\* open or openat and its path equals no entry of files_allowed; otherwise the
\* call is dispatched and the return slot keeps what it held.
C1_InterceptIffPathDenied ==
    sb_last.nr # "none" =>
        LET deny == /\ sb_last.nr \in PathSyscalls
                    /\ PathArg(sb_last) \notin Range(files_allowed)
        IN  /\ (sb_last.rc = 0) <=> deny
            /\ deny => (sb_last.ret = 0 - EPERM /\ ~sb_last.dispatched)
            /\ ~deny => (sb_last.dispatched /\ sb_last.ret = sb_last.ret0)

\* C1 witness: openat on a path that extends an allowed entry was taken over
C1_Witness ==
    /\ sb_last.nr = "openat"
    /\ sb_last.arg1 = EtcResolvConfBak
    /\ sb_last.rc = 0
    /\ sb_last.ret = 0 - EPERM
    /\ EtcResolvConf \in Range(files_allowed)

\* C2: under the loaded filter, an open or openat whose flags ask for write
\* access (O_WRONLY or O_RDWR) and that reaches the kernel is not admitted:
\* the process is killed.
C2_WriteOpenKilled ==
    (/\ sb_last.nr \in {"open", "openat"}
     /\ sb_last.dispatched
     /\ sb_last.filtered
     /\ BitAnd(IF sb_last.nr = "open" THEN sb_last.arg1 ELSE sb_last.arg2, O_ACCMODE)
            # O_RDONLY)
        => sb_last.killed

\* C10: for non-empty x, decompressBuffer(compressBuffer(x)) = x and the last
\* 8 bytes of compressBuffer(x) are the length of x.
C10_RoundTrip ==
    (cx_pc \in {"compressed", "decompressed"} /\ cx_in # <<>>) =>
        /\ Len(cx_blob) >= SizeofU64
        /\ SubSeq(cx_blob, Len(cx_blob) - SizeofU64 + 1, Len(cx_blob))
               = LittleEndian(Len(cx_in), SizeofU64)
        /\ cx_pc = "decompressed" => cx_out = cx_in

\* C10 witness: a string of the longest length came back from the round trip
C10_Witness ==
    /\ cx_pc = "decompressed"
    /\ Len(cx_in) = MaxLen
    /\ cx_out = cx_in
    /\ cx_blob # cx_in

\* C3: when a parent-side step of run failed (decompressing, writing the
\* shared object, creating the region, forking), run has returned false and
\* the caller's output buffer holds what it held before.
C3_ParentFailureReturnsFalse ==
    (r_pc = "returned" /\ r_failed # "none") =>
        (r_ret = "false" /\ r_output = InitialOutput(Len(r_output)))

\* C4: the child never returns from run into the host's code; it ends through
\* _exit, with code 1 when opening the object, resolving a symbol or
\* initializing the sandbox failed, and with code 0 after the entry symbol was
\* called and returned.
C4_ChildExitsInsideRun ==
    /\ ch_pc # "host"
    /\ ch_end.how # "host"
    /\ (ch_pc = "dead" /\ ch_fail # "none") => ch_end = [how |-> "_exit", code |-> 1]
    /\ (ch_pc = "dead" /\ ch_end = [how |-> "_exit", code |-> 0])
           => (ch_fail = "none" /\ ch_calls = 1)

\* C6: once the child was forked, run returns true with every byte of the
\* output buffer copied from the shared region, whatever the child's fate:
\* the buffer equals the region when the child was reaped before the copy, and
\* is all zero when the child ended without writing.
C6_ForkedRunCopiesRegion ==
    (r_pc = "returned" /\ r_pid = "child") =>
        /\ r_ret = "true"
        /\ \A i \in 1..Len(r_output) : r_output[i] \in {0} \cup UdfBytes
        /\ r_wait = "pid" => r_output = r_region
        /\ (ch_pc = "dead" /\ ch_writes = 0) => r_output = Zeros(Len(r_output))

\* C6 witness: the child was killed after a partial write, and run returned
\* true with the region's bytes in a two-byte output buffer
C6_Witness ==
    /\ r_pc = "returned"
    /\ r_pid = "child"
    /\ ch_end.how = "signal"
    /\ ch_writes = 1
    /\ r_wait = "pid"
    /\ Len(r_output) = 2
    /\ r_output = r_region
    /\ r_ret = "true"

\* C8: the parent copies the region only after the child has ended.
C8_CopyOnlyAfterChildEnded ==
    (r_pc \in {"copied", "returned"} /\ r_pid = "child") => ch_pc = "dead"

\* C9: when the entry symbol is called the four tables hold N+1 entries,
\* entry 0 describing the output dataset with its data pointer at the shared
\* region, entry i the i-th input of the caller, alike in all four tables.
C9_TablesAtEntry ==
    ch_calls > 0 =>
        LET n == Len(r_in.inputs)
        IN  /\ Len(ch_tables.data) = n + 1
            /\ Len(ch_tables.names) = n + 1
            /\ Len(ch_tables.types) = n + 1
            /\ Len(ch_tables.dims) = n + 1
            /\ ch_tables.data[1] = "mm.mm"
            /\ ch_tables.data[1] # r_in.output.data
            /\ ch_tables.names[1] = r_in.output.name
            /\ ch_tables.types[1] = r_in.output.datatype
            /\ ch_tables.dims[1] = r_in.output.dimensions
            /\ \A i \in 1..n :
                  /\ ch_tables.data[i + 1] = r_in.inputs[i].data
                  /\ ch_tables.names[i + 1] = r_in.inputs[i].name
                  /\ ch_tables.types[i + 1] = r_in.inputs[i].datatype
                  /\ ch_tables.dims[i + 1] = r_in.inputs[i].dimensions

\* C9 witness: the entry symbol was called with two different inputs
C9_Witness ==
    /\ ch_calls = 1
    /\ Len(r_in.inputs) = 2
    /\ ch_tables.names = <<"out", "b", "a">>
    /\ ch_tables.data = <<"mm.mm", "b_buffer", "a_buffer">>

\* C5: when the compiler of a call left no shared object and the call found
\* none at the output path, compile returns the empty blob.
C5_MissingOutputGivesEmptyBlob ==
    \A i \in Callers :
        (c_pc[i] = "returned" /\ c_cc[i] = "failed" /\ c_cpp[i] = "unlinked"
            /\ ~c_statok[i])
            => c_result[i] = <<>>

\* C7: a call never reads the shared object another call's compiler wrote:
\* what it read, and packs, is its own compiler's output.
C7_ReadsOwnCompilerOutput ==
    \A i \in Callers :
        c_pc[i] \in {"read", "unlinked", "returned"} => c_bytecode[i] \in {<<>>, SoOf(i)}

\* C11: when compile has returned after the source was assembled, neither the
\* assembled source nor the shared object <udf_file>.so is on disk, on every
\* return path (output present, output missing, fork failure).
C11_NoFilesLeftAfterCompile ==
    \A i \in Callers :
        (c_pc[i] = "returned" /\ c_cpp[i] # "none")
            => (c_cpp[i] = "unlinked" /\ ~fs_so[c_udf[i]].exists)

\* C13: once the filter is loaded, a syscall that reaches the kernel survives
\* only if it is one of the syscalls of the fixed allowlist, and an ioctl only
\* if its request argument is FIONREAD; any other syscall kills the process.
C13_OnlyAllowlistedSurvive ==
    (sb_last.filtered /\ sb_last.dispatched) =>
        LET allowlist ==
                {"brk", "exit_group", "socket", "setsockopt", "ioctl", "connect",
                 "select", "poll", "read", "recv", "recvfrom", "write", "send",
                 "sendto", "sendmsg", "close", "stat", "lstat", "fstat", "fstat64",
                 "open", "openat", "mmap", "mmap2", "munmap", "lseek", "_llseek",
                 "futex", "uname", "mprotect"}
            allowed == /\ sb_last.nr \in allowlist
                       /\ (sb_last.nr = "ioctl" => sb_last.arg1 = FIONREAD)
        IN  /\ ~sb_last.killed => allowed
            /\ ~allowed => (sb_last.killed /\ ~sb_alive)

\* C13 witness: under the loaded filter an ioctl with another request and a
\* syscall outside the allowlist were killed, and ioctl(FIONREAD) would survive
C13_Witness ==
    /\ sb_last.filtered
    /\ sb_last.dispatched
    /\ sb_last.nr = "ioctl"
    /\ sb_last.arg1 = TCGETS
    /\ sb_last.killed
    /\ ~sb_alive
    /\ Admitted(sb_filter, [nr |-> "ioctl", arg0 |-> 3, arg1 |-> FIONREAD, arg2 |-> 0])
    /\ ~Admitted(sb_filter, [nr |-> "execve", arg0 |-> 3, arg1 |-> 0, arg2 |-> 0])

\* C14: syscall_filter_init is idempotent: in a process where the filter is
\* already loaded, another call returns, leaves the process alive and leaves
\* the loaded filter (the set of admitted syscalls) as it was.  (A step of a
\* loaded library that issues no syscall of the function is a call of
\* syscall_filter_init.)
C14_SecondInitIdempotent ==
    [][(sb_pc = "loaded" /\ sb_filter # <<>> /\ sb_last' = sb_last) =>
           /\ sb_alive'
           /\ sb_filter' = sb_filter
           /\ Len(sb_inits') = Len(sb_inits) + 1]_vars

\* C16: in the child of run the entry symbol is called at most once, only
\* with the four tables populated (one entry for the output and one for each
\* input) and only when no pre-run step failed; when sandbox initialization
\* fails the entry symbol is not called and the child has ended by _exit(1).
C16_EntryCalledOnceWhenReady ==
    /\ ch_calls <= 1
    /\ ch_calls > 0 =>
           /\ ch_fail = "none"
           /\ \A t \in {ch_tables.data, ch_tables.names, ch_tables.types, ch_tables.dims} :
                  Len(t) = Len(r_in.inputs) + 1
    /\ ch_fail = "sandbox" =>
           /\ ch_calls = 0
           /\ ch_pc = "dead"
           /\ ch_end = [how |-> "_exit", code |-> 1]

\* C16 witness: sandbox initialization failed in a child whose tables were
\* populated; the entry symbol was not called and the child left by _exit(1)
C16_Witness ==
    /\ r_in.sandbox
    /\ ch_fail = "sandbox"
    /\ Len(ch_tables.data) = Len(r_in.inputs) + 1
    /\ Len(r_in.inputs) = MaxInputs
    /\ ch_calls = 0
    /\ ch_end = [how |-> "_exit", code |-> 1]

\* C17: the shared object run wrote stays on disk until the child has
\* terminated (it is not unlinked while a forked child is alive), and it has
\* been unlinked when run has returned in the parent, on every return path.
C17_SharedObjectKeptThenUnlinked ==
    /\ (r_sofile = "unlinked" /\ r_pid = "child") => ch_pc = "dead"
    /\ (r_pc = "returned" /\ r_sofile # "none") => r_sofile = "unlinked"

\* C15: the constructor turns the configured list into the allowlist: every
\* entry without '*' is kept, every entry with '*' whose glob succeeds is
\* replaced by exactly the paths it matches, an entry with '*' whose glob fails
\* or matches nothing adds nothing; once loaded the list does not change.
C15_AllowlistExpandedOnce ==
    [][/\ (sb_pc = "unloaded" /\ sb_pc' = "loaded") =>
              \E globbed \in SUBSET {i \in 1..Len(files_allowed) : HasStar(files_allowed[i])} :
                  \A p \in Range(files_allowed) \cup Range(files_allowed') \cup FilesOnDisk :
                      Cardinality({k \in 1..Len(files_allowed') : files_allowed'[k] = p})
                          = Cardinality({i \in 1..Len(files_allowed) :
                                            \/ ~HasStar(files_allowed[i]) /\ files_allowed[i] = p
                                            \/ /\ i \in globbed
                                               /\ p \in FilesOnDisk
                                               /\ GlobMatch(files_allowed[i], p)})
       /\ sb_pc = "loaded" => files_allowed' = files_allowed]_vars

\* C15 witness: the list { "/etc/resolv.conf", "/t/*" } was expanded to the
\* literal entry and the two files the pattern matches, and syscalls have been
\* issued since
C15_Witness ==
    /\ sb_pc = "loaded"
    /\ Len(files_allowed) = 3
    /\ files_allowed[1] = EtcResolvConf
    /\ {files_allowed[2], files_allowed[3]} = {TmpA, TmpB}
    /\ sb_last.nr # "none"

\* C18 (as stated): decompressBuffer returns the empty string for every blob
\* whose trailer differs from the length its payload decompresses to.
C18_MismatchedTrailerFails ==
    (cx_pc = "decompressed" /\ TrailerOf(cx_blob) # Len(cx_in)) => cx_out = <<>>

\* C18 (amended): decompressBuffer returns the empty string when the trailer
\* is smaller than the payload's true length; when the trailer is equal or
\* larger it returns a byte string of the trailer's length: the payload
\* followed by zero bytes.
C18_TrailerSizesResult ==
    cx_pc = "decompressed" =>
        /\ TrailerOf(cx_blob) < Len(cx_in) => cx_out = <<>>
        /\ TrailerOf(cx_blob) >= Len(cx_in) =>
               /\ Len(cx_out) = TrailerOf(cx_blob)
               /\ cx_out = cx_in \o Zeros(TrailerOf(cx_blob) - Len(cx_in))

\* C18 witness: a non-empty payload unpacked under a larger trailer
C18_Witness ==
    /\ cx_pc = "decompressed"
    /\ cx_in # <<>>
    /\ TrailerOf(cx_blob) > Len(cx_in)
    /\ Len(cx_out) = TrailerOf(cx_blob)
    /\ SubSeq(cx_out, 1, Len(cx_in)) = cx_in

\* C12: for preprocessor text in which every lib.getData is a call whose
\* argument list opens with a string literal, udfDatasetNames returns one name
\* for every occurrence of lib.getData, lines holding more than one occurrence
\* included: the k-th name is the literal that follows the k-th occurrence.
C12_OneNamePerOccurrence ==
    LET occurrences == {i \in 1..Len(sc_input) :
                           /\ i + Len(Needle) - 1 <= Len(sc_input)
                           /\ SubSeq(sc_input, i, i + Len(Needle) - 1) = Needle}
        rest(i) == SubSeq(sc_input, i + Len(Needle), Len(sc_input))
        literal(i) == SubstrFrom(rest(i), FindFirstOf(rest(i), Quote) + 1)
        isCall(i) == /\ Len(rest(i)) >= 2
                     /\ SubSeq(rest(i), 1, 2) = <<"(", Quote>>
                     /\ FindFirstOf(literal(i), Quote) # NPOS
    IN  (sc_pc = "done" /\ \A i \in occurrences : isCall(i)) =>
            /\ Len(sc_output) = Cardinality(occurrences)
            /\ \A i \in occurrences :
                   sc_output[1 + Cardinality({j \in occurrences : j < i})]
                       = Substr(literal(i), 0, FindFirstOf(literal(i), Quote))

\* C19: when the read loop has ended, the parent's input holds every byte the
\* preprocessor wrote to the pipe, whatever the interleaving of the child's
\* writes and exit with the parent's read and waitpid.
C19_LoopEndsWithAllOutput ==
    sc_pc \in {"parse", "done"} =>
        /\ sc_pipe = <<>>
        /\ sc_input = Flatten(sc_text)

====
